---- MODULE Spec2Model ----
(***************************************************************************)
(* Model of app.py, the "Universal Multi-Market Price Intelligence"        *)
(* dashboard: the page fetcher get_html, the price normalizer safe_float,  *)
(* the four marketplace extractors, aggregate_prices, gpt_summary and the  *)
(* search button handler.                                                  *)
(*                                                                         *)
(* Amounts.  A Python float holding a price is represented by an integer   *)
(* number of units of 1/UnitsPerZloty zloty (half a grosz).  Every price   *)
(* token of the model has at most two fractional digits, so its value is   *)
(* an even number of units, and the mean of two such values (np.median of  *)
(* an even-length list) is again an integer number of units.  A rate is an *)
(* integer number of hundredths (1.0 is RateOne).  The deviation, a        *)
(* quotient, is kept as an exact fraction [num, den] with den > 0.         *)
(*                                                                         *)
(* Text.  A price text is a sequence of one-character strings.  A fetched  *)
(* page is a record: whether its text is the empty string, and the         *)
(* sequence of its candidate cards (what soup.select returns), each card   *)
(* carrying what select_one finds in it.  The empty string "" that         *)
(* get_html returns after exhausting its retries has no card.              *)
(***************************************************************************)
EXTENDS Integers, Sequences, FiniteSets, TLC

\* ------------------------------------------------------------------ bounds
\* Largest retry budget get_html is called with in SpecFetch.
MaxRetries == 3
\* Largest number of candidate cards on a page in SpecScrape.
MaxCards == 2

\* --------------------------------------------------------------- constants
UnitsPerZloty == 2 * 100
RateOne == 100
FallbackRate == 23
DefaultRetries == 3
BackoffSeconds == 3

None == "None"
Nan == "nan"
UnknownSeller == "Unknown seller"

Zl(n) == n * UnitsPerZloty

\* ------------------------------------------------------------ safe_float
Digits == {"0", "1", "2", "3", "4", "5", "6", "7", "8", "9"}

DigitVal(c) ==
  CASE c = "0" -> 0 [] c = "1" -> 1 [] c = "2" -> 2 [] c = "3" -> 3
    [] c = "4" -> 4 [] c = "5" -> 5 [] c = "6" -> 6 [] c = "7" -> 7
    [] c = "8" -> 8 [] c = "9" -> 9

\* The currency marker removed at line 49, as the source file spells it: the
\* three characters z, U+2248 and U+00C7.  Characters outside ASCII are named
\* by their code point; PlnSuffix is the marker "z" + U+0142 of a live page.
CurrencyMarker == <<"z", "U+2248", "U+00C7">>
PlnSuffix == <<"z", "U+0142">>

IsPrefix(p, s) == Len(p) <= Len(s) /\ SubSeq(s, 1, Len(p)) = p

\* str.replace(old, ""): one left-to-right pass over non-overlapping matches.
RECURSIVE RemoveAll(_, _)
RemoveAll(s, old) ==
  IF s = <<>> THEN <<>>
  ELSE IF IsPrefix(old, s)
       THEN RemoveAll(SubSeq(s, Len(old) + 1, Len(s)), old)
       ELSE <<s[1]>> \o RemoveAll(Tail(s), old)

\* str.replace(",", ".")
CommaToDot(s) == [i \in 1..Len(s) |-> IF s[i] = "," THEN "." ELSE s[i]]

\* str.replace(" ", "")
RemoveSpaces(s) == SelectSeq(s, LAMBDA c : c # " ")

CleanPriceText(text) == RemoveSpaces(CommaToDot(RemoveAll(text, CurrencyMarker)))

RECURSIVE Pow10(_)
Pow10(n) == IF n = 0 THEN 1 ELSE 10 * Pow10(n - 1)

RECURSIVE DigitsValue(_)
DigitsValue(ds) ==
  IF ds = <<>> THEN 0
  ELSE 10 * DigitsValue(SubSeq(ds, 1, Len(ds) - 1)) + DigitVal(ds[Len(ds)])

\* What safe_float returns: a float, or None.
Some(v) == [ok |-> TRUE, val |-> v]
NoFloat == [ok |-> FALSE, val |-> 0]

\* float(text) on a text of digits, sign, point and other characters: an
\* optional sign, then digits with at most one point and at least one digit;
\* anything else raises ValueError, which safe_float turns into None.  The
\* value is exact for a text with at most two fractional digits, which every
\* text of PriceTexts is.  (Exponents, underscores, inf and nan, which float
\* also accepts, use characters no text of PriceTexts has.)
ParseFloat(s) ==
  LET signed == s # <<>> /\ s[1] \in {"-", "+"}
      body   == IF signed THEN Tail(s) ELSE s
      points == SelectSeq(body, LAMBDA c : c = ".")
      ds     == SelectSeq(body, LAMBDA c : c \in Digits)
      pointAt == CHOOSE i \in 1..Len(body) : body[i] = "."
      frac   == IF points = <<>> THEN 0 ELSE Len(body) - pointAt
      ok     == /\ \A i \in 1..Len(body) : body[i] \in Digits \cup {"."}
                /\ Len(points) <= 1
                /\ Len(ds) >= 1
      mag    == (DigitsValue(ds) * UnitsPerZloty) \div Pow10(frac)
  IN IF ~ok THEN NoFloat
     ELSE IF signed /\ s[1] = "-" THEN Some(0 - mag) ELSE Some(mag)

safe_float(text) == ParseFloat(CleanPriceText(text))

\* ------------------------------------------------------------ inputs
Sites == {"Ceneo", "Allegro", "Amazon", "Google"}
\* Iteration order of the dict literal of aggregate_prices.
SiteOrder == <<"Ceneo", "Allegro", "Amazon", "Google">>

Barcodes == {"", "5901234123457"}
Eans == Barcodes \ {""}

\* The URL each extractor builds: its template and the search key.
Url(site, ean) ==
  [template |-> CASE site = "Ceneo"   -> "https://www.ceneo.pl/;szukaj-"
                  [] site = "Allegro" -> "https://allegro.pl/listing?string="
                  [] site = "Amazon"  -> "https://www.amazon.pl/s?k="
                  [] site = "Google"  -> "https://www.google.com/search?tbm=shop&hl=pl&gl=pl&q=",
   ean |-> ean]

\* Price texts a card may carry.
TextMarked  == <<"1", "2", "0", ",", "0", "0", " ">> \o CurrencyMarker
TextZloty   == <<"1", "2", "0", ",", "0", "0", " ">> \o PlnSuffix
TextPlain   == <<"8", "0">>
TextZero    == <<"0">>
TextNeg     == <<"-", "5">>
TextSpaced  == <<"1", " ", "2", "3", "4", ",", "5">>
PriceTexts  == {TextMarked, TextZloty, TextPlain, TextZero, TextNeg, TextSpaced}

\* A candidate card: what select_one finds for the price and seller selectors,
\* and whether reading the card raises (the extractor's try/except).
Card(hasPrice, priceText, hasSeller, sellerText, raises) ==
  [has_price |-> hasPrice, price_text |-> priceText,
   has_seller |-> hasSeller, seller_text |-> sellerText, raises |-> raises]

Cards ==
  {Card(TRUE, t, hs, IF hs THEN "Shop" ELSE "", FALSE) : t \in PriceTexts, hs \in BOOLEAN}
  \cup {Card(FALSE, <<>>, hs, IF hs THEN "Shop" ELSE "", FALSE) : hs \in BOOLEAN}
  \cup {Card(TRUE, TextPlain, TRUE, "Shop", TRUE)}

RECURSIVE SeqsUpTo(_, _)
SeqsUpTo(S, n) ==
  IF n = 0 THEN {<<>>}
  ELSE LET shorter == SeqsUpTo(S, n - 1)
       IN shorter \cup {Append(q, x) : q \in {r \in shorter : Len(r) = n - 1}, x \in S}

\* Markup that is not the empty string, with the cards soup.select finds in it.
Page(cards) == [empty |-> FALSE, cards |-> cards]

\* What get_html returns when every attempt failed: "", which has no card.
EmptyHtml == [empty |-> TRUE, cards |-> <<>>]

\* Pages for SpecScrape: "", and markup with every sequence of at most
\* MaxCards cards.
Pages == {EmptyHtml} \cup {Page(cs) : cs \in SeqsUpTo(Cards, MaxCards)}

\* Response bodies a marketplace serves in Spec and SpecFetch.
BodyNoCards == Page(<<>>)
BodyOne     == Page(<<Card(TRUE, TextMarked, TRUE, "Shop", FALSE)>>)
BodyTwo     == Page(<<Card(TRUE, TextPlain, FALSE, "", FALSE), Card(TRUE, TextZloty, TRUE, "Shop", FALSE)>>)
BodyOdd     == Page(<<Card(TRUE, TextZero, TRUE, "Shop", FALSE), Card(TRUE, TextNeg, FALSE, "", FALSE)>>)
Bodies      == {BodyNoCards, BodyOne, BodyTwo, BodyOdd}

\* st.number_input(min_value=0.0, step=0.01): the reference price, in units.
RrpValues == {0, Zl(100)}
Currencies == {"PLN", "EUR"}
\* Rates the exchange-rate service may answer with, in hundredths.
LiveRates == {22}

\* ------------------------------------------------------------ statistics
RECURSIVE Insert(_, _)
Insert(x, sorted) ==
  IF sorted = <<>> THEN <<x>>
  ELSE IF x <= sorted[1] THEN <<x>> \o sorted
       ELSE <<sorted[1]>> \o Insert(x, Tail(sorted))

RECURSIVE Sort(_)
Sort(xs) == IF xs = <<>> THEN <<>> ELSE Insert(xs[1], Sort(Tail(xs)))

\* np.median: the middle of the sorted values, the mean of the two middle ones
\* for an even count, nan (with a warning) for none.
np_median(xs) ==
  LET s == Sort(xs)
      n == Len(xs)
  IN IF n = 0 THEN Nan
     ELSE IF n % 2 = 1 THEN s[(n + 1) \div 2]
          ELSE (s[n \div 2] + s[n \div 2 + 1]) \div 2

Min(xs) == Sort(xs)[1]
Max(xs) == Sort(xs)[Len(xs)]

\* Line 221: (median - rrp) / rrp * 100 if rrp else 0, as an exact fraction.
DeviationSwapped(median, rrp) ==
  IF rrp # 0 THEN [num |-> (rrp - median) * 100, den |-> rrp]
  ELSE [num |-> 0, den |-> 1]

Deviation(median, rrp) ==
  IF rrp # 0 THEN [num |-> (median - rrp) * 100, den |-> rrp]
  ELSE [num |-> 0, den |-> 1]

\* ------------------------------------------------------------ state
VARIABLES
  \* the search button handler (lines 207-282)
  pc, barcode, rrp, currency, all_prices, site_counts, site_data,
  median, deviation, rate, symbol, median_converted, table_data, summary,
  gpt_outcome, ui, stat_calls,
  \* aggregate_prices (lines 156-180)
  agg_pc, agg_i, results, agg_trace, outcome,
  \* the running extractor (lines 76-151)
  scrape_pc, site, html, card_i, scrape_results,
  \* get_html (lines 55-71)
  fetch_pc, url, retries, attempt, fetch_ret, fetch_log

handlerVars == <<pc, barcode, rrp, currency, all_prices, site_counts, site_data,
                 median, deviation, rate, symbol, median_converted, table_data,
                 summary, gpt_outcome, ui, stat_calls>>
aggVars     == <<agg_pc, agg_i, results, agg_trace, outcome>>
scrapeVars  == <<scrape_pc, site, html, card_i, scrape_results>>
fetchVars   == <<fetch_pc, url, retries, attempt, fetch_ret, fetch_log>>
vars        == <<handlerVars, aggVars, scrapeVars, fetchVars>>

Put(f, k, v) == [x \in DOMAIN f \cup {k} |-> IF x = k THEN v ELSE f[x]]

\* The keys of a dict filled while iterating SiteOrder, in insertion order.
KeysInOrder(f) == SelectSeq(SiteOrder, LAMBDA s : s \in DOMAIN f)

Widget(w, arg) == [widget |-> w, arg |-> arg]

\* ------------------------------------------------------------ get_html
\* What get_html did, in order: a request (with its number, whether it succeeded
\* and the body it got), a warning (with the attempt's number), a sleep (with
\* its seconds).
Event(ev, n, ok, body) == [ev |-> ev, n |-> n, ok |-> ok, body |-> body]

\* Line 57: for attempt in range(retries).
LoopContinuesOffByOne(a, n) == a <= n

LoopContinues(a, n) == a < n

\* Lines 65-67: the request succeeds and its body is returned.
FetchAttemptOk ==
  /\ fetch_pc = "loop"
  /\ LoopContinues(attempt, retries)
  /\ \E body \in Bodies :
       /\ fetch_ret' = body
       /\ fetch_log' = Append(fetch_log, Event("attempt", attempt + 1, TRUE, body))
  /\ fetch_pc' = "done"
  /\ UNCHANGED <<url, retries, attempt>>
  /\ UNCHANGED <<handlerVars, aggVars, scrapeVars>>

\* Lines 65-70: requests.get or raise_for_status raises; warn, sleep, next attempt.
FetchAttemptFail ==
  /\ fetch_pc = "loop"
  /\ LoopContinues(attempt, retries)
  /\ fetch_log' = fetch_log \o
       << Event("attempt", attempt + 1, FALSE, EmptyHtml),
          Event("warning", attempt + 1, FALSE, EmptyHtml),
          Event("sleep", BackoffSeconds, FALSE, EmptyHtml) >>
  /\ attempt' = attempt + 1
  /\ UNCHANGED <<fetch_pc, url, retries, fetch_ret>>
  /\ UNCHANGED <<handlerVars, aggVars, scrapeVars>>

\* Line 71: the loop ran out; return "".
FetchExhausted ==
  /\ fetch_pc = "loop"
  /\ ~LoopContinues(attempt, retries)
  /\ fetch_ret' = EmptyHtml
  /\ fetch_pc' = "done"
  /\ UNCHANGED <<url, retries, attempt, fetch_log>>
  /\ UNCHANGED <<handlerVars, aggVars, scrapeVars>>

\* ------------------------------------------------------------ extractors
\* Lines 89, 108, 127, 146: if price is not None.
PriceAcceptedTruthy(price) == price.ok /\ price.val # 0

PriceAccepted(price) == price.ok

\* Lines 90, 109, 128, 147.
SellerOf(card) == IF card.has_seller THEN card.seller_text ELSE UnknownSeller

\* Lines 84-93 (and the same loop body of the other three extractors).
ProcessCard(res, card) ==
  IF card.raises THEN res
  ELSE IF card.has_price
       THEN LET price == safe_float(card.price_text)
            IN IF PriceAccepted(price)
               THEN Append(res, [seller |-> SellerOf(card), price |-> price.val])
               ELSE res
       ELSE res

\* Lines 77-78: build the URL and call get_html with the default budget.
ScrapeCallFetch ==
  /\ scrape_pc = "start"
  /\ url' = Url(site, barcode)
  /\ retries' = DefaultRetries
  /\ attempt' = 0
  /\ fetch_log' = <<>>
  /\ fetch_ret' = EmptyHtml
  /\ fetch_pc' = "loop"
  /\ scrape_pc' = "fetching"
  /\ UNCHANGED <<site, html, card_i, scrape_results>>
  /\ UNCHANGED <<handlerVars, aggVars>>

\* Lines 79-82: parse the markup and select the candidate cards.
ScrapeParse ==
  /\ scrape_pc = "fetching"
  /\ fetch_pc = "done"
  /\ html' = fetch_ret
  /\ card_i' = 1
  /\ scrape_results' = <<>>
  /\ scrape_pc' = "cards"
  /\ fetch_pc' = "idle"
  /\ UNCHANGED <<site, url, retries, attempt, fetch_ret, fetch_log>>
  /\ UNCHANGED <<handlerVars, aggVars>>

\* Lines 83-93: one iteration of the loop over the cards.
ScrapeCard ==
  /\ scrape_pc = "cards"
  /\ card_i <= Len(html.cards)
  /\ scrape_results' = ProcessCard(scrape_results, html.cards[card_i])
  /\ card_i' = card_i + 1
  /\ UNCHANGED <<scrape_pc, site, html>>
  /\ UNCHANGED <<handlerVars, aggVars, fetchVars>>

\* Line 94: return results.
ScrapeReturn ==
  /\ scrape_pc = "cards"
  /\ card_i > Len(html.cards)
  /\ scrape_pc' = "done"
  /\ UNCHANGED <<site, html, card_i, scrape_results>>
  /\ UNCHANGED <<handlerVars, aggVars, fetchVars>>

\* ------------------------------------------------------------ aggregate_prices
\* Lines 175, 239, 258: the truth value of one site's list.
SiteHasData(data) == data # <<>>

PricesOf(data) == [i \in 1..Len(data) |-> data[i].price]

\* Lines 173-179: all_prices, site after site in insertion order.
RECURSIVE FlattenPrices(_, _)
FlattenPrices(res, keys) ==
  IF keys = <<>> THEN <<>>
  ELSE (IF SiteHasData(res[keys[1]]) THEN PricesOf(res[keys[1]]) ELSE <<>>)
       \o FlattenPrices(res, Tail(keys))

\* Line 172 left out: the failing site gets no entry.
OnErrorResultsNoKey(res, s) == res

\* Line 172: results[site] = [].
OnErrorResults(res, s) == Put(res, s, <<>>)

\* Lines 159-167: the next site of the dict; announce it and call its extractor.
AggInvoke ==
  /\ agg_pc = "loop"
  /\ agg_i <= Len(SiteOrder)
  /\ site' = SiteOrder[agg_i]
  /\ scrape_pc' = "start"
  /\ agg_trace' = Append(agg_trace, [ev |-> "invoke", site |-> SiteOrder[agg_i]])
  /\ agg_pc' = "wait"
  /\ UNCHANGED <<agg_i, results, outcome, html, card_i, scrape_results>>
  /\ UNCHANGED <<handlerVars, fetchVars>>

\* Lines 79-82 (100-102, 119-121, 138-140): get_html has returned markup and
\* parsing it (BeautifulSoup, soup.select) raises; the statements are outside
\* the per-card try, so the exception leaves the extractor.  An extractor has
\* nothing that raises before its call of get_html, get_html itself does not
\* raise, and the empty string holds no markup for the parser to reject.
ExtractorFault ==
  /\ scrape_pc = "fetching"
  /\ fetch_pc = "done"
  /\ ~fetch_ret.empty
  /\ scrape_pc' = "raised"
  /\ fetch_pc' = "idle"
  /\ UNCHANGED <<site, html, card_i, scrape_results>>
  /\ UNCHANGED <<url, retries, attempt, fetch_ret, fetch_log>>
  /\ UNCHANGED <<handlerVars, aggVars>>

\* Lines 168-169: store the extractor's list, then the politeness sleep.
AggStore ==
  /\ agg_pc = "wait"
  /\ scrape_pc = "done"
  /\ results' = Put(results, site, scrape_results)
  /\ outcome' = Put(outcome, site, [kind |-> "returned", data |-> scrape_results])
  /\ agg_trace' = Append(agg_trace, [ev |-> "sleep", site |-> site])
  /\ agg_i' = agg_i + 1
  /\ agg_pc' = "loop"
  /\ scrape_pc' = "idle"
  /\ UNCHANGED <<site, html, card_i, scrape_results>>
  /\ UNCHANGED <<handlerVars, fetchVars>>

\* The extractor's exception leaves aggregate_prices (no try/except).
AggExceptPropagates ==
  /\ agg_pc = "wait"
  /\ scrape_pc = "raised"
  /\ outcome' = Put(outcome, site, [kind |-> "raised", data |-> <<>>])
  /\ agg_pc' = "raised"
  /\ pc' = "crashed"
  /\ scrape_pc' = "idle"
  /\ UNCHANGED <<agg_i, results, agg_trace, site, html, card_i, scrape_results>>
  /\ UNCHANGED <<barcode, rrp, currency, all_prices, site_counts, site_data,
                 median, deviation, rate, symbol, median_converted, table_data,
                 summary, gpt_outcome, ui, stat_calls>>
  /\ UNCHANGED fetchVars

\* Lines 170-172: warn and record an empty list for the site.
AggExcept ==
  /\ agg_pc = "wait"
  /\ scrape_pc = "raised"
  /\ ui' = Append(ui, Widget("warning_site_error", site))
  /\ results' = OnErrorResults(results, site)
  /\ outcome' = Put(outcome, site, [kind |-> "raised", data |-> <<>>])
  /\ agg_i' = agg_i + 1
  /\ agg_pc' = "loop"
  /\ scrape_pc' = "idle"
  /\ UNCHANGED <<agg_trace, site, html, card_i, scrape_results>>
  /\ UNCHANGED <<pc, barcode, rrp, currency, all_prices, site_counts, site_data,
                 median, deviation, rate, symbol, median_converted, table_data,
                 summary, gpt_outcome, stat_calls>>
  /\ UNCHANGED fetchVars

\* Lines 173-180 and 217: flatten, count, return to the handler.
AggReturn ==
  /\ agg_pc = "loop"
  /\ agg_i > Len(SiteOrder)
  /\ all_prices' = FlattenPrices(results, KeysInOrder(results))
  /\ site_counts' = [s \in DOMAIN results |-> Len(results[s])]
  /\ site_data' = results
  /\ agg_pc' = "idle"
  /\ pc' = "post"
  /\ UNCHANGED <<agg_i, results, agg_trace, outcome>>
  /\ UNCHANGED <<barcode, rrp, currency, median, deviation, rate, symbol,
                 median_converted, table_data, summary, gpt_outcome, ui, stat_calls>>
  /\ UNCHANGED <<scrapeVars, fetchVars>>

\* ------------------------------------------------------------ the handler
\* Line 219: if all_prices.
HasPricesAlways(prices) == TRUE

HasPricesMoreThanOne(prices) == Len(prices) > 1

HasPrices(prices) == prices # <<>>

\* Lines 212-214: no barcode; warn and stop.
HandlerEmptyBarcode ==
  /\ pc = "click"
  /\ barcode = ""
  /\ ui' = Append(ui, Widget("warning_no_barcode", ""))
  /\ pc' = "stopped"
  /\ UNCHANGED <<barcode, rrp, currency, all_prices, site_counts, site_data,
                 median, deviation, rate, symbol, median_converted, table_data,
                 summary, gpt_outcome, stat_calls>>
  /\ UNCHANGED <<aggVars, scrapeVars, fetchVars>>

\* Lines 216-217 and 158: call aggregate_prices.
HandlerStart ==
  /\ pc = "click"
  /\ barcode # ""
  /\ pc' = "aggregating"
  /\ agg_pc' = "loop"
  /\ agg_i' = 1
  /\ results' = <<>>
  /\ UNCHANGED <<agg_trace, outcome>>
  /\ UNCHANGED <<barcode, rrp, currency, all_prices, site_counts, site_data,
                 median, deviation, rate, symbol, median_converted, table_data,
                 summary, gpt_outcome, ui, stat_calls>>
  /\ UNCHANGED <<scrapeVars, fetchVars>>

\* Lines 281-282: nothing found.
HandlerNoData ==
  /\ pc = "post"
  /\ ~HasPrices(all_prices)
  /\ ui' = Append(ui, Widget("warning_no_prices", ""))
  /\ pc' = "done"
  /\ UNCHANGED <<barcode, rrp, currency, all_prices, site_counts, site_data,
                 median, deviation, rate, symbol, median_converted, table_data,
                 summary, gpt_outcome, stat_calls>>
  /\ UNCHANGED <<aggVars, scrapeVars, fetchVars>>

\* Lines 219-220: the overall median.
HandlerMedian ==
  /\ pc = "post"
  /\ HasPrices(all_prices)
  /\ stat_calls' = Append(stat_calls, [fn |-> "median", arg |-> all_prices])
  /\ median' = np_median(all_prices)
  /\ pc' = "deviation"
  /\ UNCHANGED <<barcode, rrp, currency, all_prices, site_counts, site_data,
                 deviation, rate, symbol, median_converted, table_data,
                 summary, gpt_outcome, ui>>
  /\ UNCHANGED <<aggVars, scrapeVars, fetchVars>>

\* Line 221.
HandlerDeviation ==
  /\ pc = "deviation"
  /\ deviation' = Deviation(median, rrp)
  /\ pc' = "currency"
  /\ UNCHANGED <<barcode, rrp, currency, all_prices, site_counts, site_data,
                 median, rate, symbol, median_converted, table_data,
                 summary, gpt_outcome, ui, stat_calls>>
  /\ UNCHANGED <<aggVars, scrapeVars, fetchVars>>

\* Lines 35-42: the live rate, or the fallback when the lookup fails.
ExchangeRateOutcomes == LiveRates \cup {FallbackRate}

\* Lines 224-235: pick the rate and symbol, convert, show the two metrics and
\* the per-site counts.
HandlerCurrency ==
  /\ pc = "currency"
  /\ \E r \in (IF currency = "EUR" THEN ExchangeRateOutcomes ELSE {RateOne}) :
       /\ rate' = r
       /\ median_converted' = median * r
  /\ symbol' = IF currency = "EUR" THEN "EUR" ELSE "PLN"
  /\ ui' = ui \o << Widget("metric_median", ""), Widget("metric_deviation", ""),
                    Widget("site_counts", "") >>
  /\ pc' = "charts"
  /\ UNCHANGED <<barcode, rrp, currency, all_prices, site_counts, site_data,
                 median, deviation, table_data, summary, gpt_outcome, stat_calls>>
  /\ UNCHANGED <<aggVars, scrapeVars, fetchVars>>

SitesWithData(data) == SelectSeq(KeysInOrder(data), LAMBDA s : SiteHasData(data[s]))

\* Lines 238-252: one bar chart per site that has data.
HandlerCharts ==
  /\ pc = "charts"
  /\ ui' = ui \o [i \in 1..Len(SitesWithData(site_data)) |->
                    Widget("chart", SitesWithData(site_data)[i])]
  /\ pc' = "table"
  /\ UNCHANGED <<barcode, rrp, currency, all_prices, site_counts, site_data,
                 median, deviation, rate, symbol, median_converted, table_data,
                 summary, gpt_outcome, stat_calls>>
  /\ UNCHANGED <<aggVars, scrapeVars, fetchVars>>

\* Lines 263-269: one row of the per-site summary.
TableRow(s, prices, r) ==
  [Site |-> s, Count |-> Len(prices), Min |-> Min(prices) * r,
   Median |-> np_median(prices) * r, Max |-> Max(prices) * r]

StatCallsOf(prices) ==
  << [fn |-> "min", arg |-> prices], [fn |-> "median", arg |-> prices],
     [fn |-> "max", arg |-> prices] >>

RECURSIVE TableCalls(_, _)
TableCalls(data, keys) ==
  IF keys = <<>> THEN <<>>
  ELSE StatCallsOf(PricesOf(data[keys[1]])) \o TableCalls(data, Tail(keys))

\* Lines 255-273: the per-site table.
HandlerTable ==
  /\ pc = "table"
  /\ LET keys == SitesWithData(site_data)
     IN /\ table_data' = [i \in 1..Len(keys) |->
                            TableRow(keys[i], PricesOf(site_data[keys[i]]), rate)]
        /\ stat_calls' = stat_calls \o TableCalls(site_data, keys)
        /\ ui' = Append(ui, IF keys # <<>> THEN Widget("dataframe", "")
                            ELSE Widget("no_per_site_data", ""))
  /\ pc' = "gpt"
  /\ UNCHANGED <<barcode, rrp, currency, all_prices, site_counts, site_data,
                 median, deviation, rate, symbol, median_converted,
                 summary, gpt_outcome>>
  /\ UNCHANGED <<aggVars, scrapeVars, fetchVars>>

\* What the text-generation service may return as message content.
SummaryTexts == {"prose", ""}

\* Lines 195-199 and 277-280: the call succeeds; show the summary if it is not empty.
GptOk ==
  /\ pc = "gpt"
  /\ \E text \in SummaryTexts :
       /\ summary' = text
       /\ ui' = IF text # "" THEN Append(ui, Widget("summary", "")) ELSE ui
  /\ gpt_outcome' = "ok"
  /\ pc' = "done"
  /\ UNCHANGED <<barcode, rrp, currency, all_prices, site_counts, site_data,
                 median, deviation, rate, symbol, median_converted, table_data,
                 stat_calls>>
  /\ UNCHANGED <<aggVars, scrapeVars, fetchVars>>

\* The call's exception leaves gpt_summary (no try/except).
GptFailPropagates ==
  /\ pc = "gpt"
  /\ gpt_outcome' = "failed"
  /\ pc' = "crashed"
  /\ UNCHANGED <<barcode, rrp, currency, all_prices, site_counts, site_data,
                 median, deviation, rate, symbol, median_converted, table_data,
                 summary, ui, stat_calls>>
  /\ UNCHANGED <<aggVars, scrapeVars, fetchVars>>

\* Lines 200-202 and 277-278: the call raises; st.error, return None, no summary.
GptFail ==
  /\ pc = "gpt"
  /\ gpt_outcome' = "failed"
  /\ summary' = None
  /\ ui' = Append(ui, Widget("error_gpt", ""))
  /\ pc' = "done"
  /\ UNCHANGED <<barcode, rrp, currency, all_prices, site_counts, site_data,
                 median, deviation, rate, symbol, median_converted, table_data,
                 stat_calls>>
  /\ UNCHANGED <<aggVars, scrapeVars, fetchVars>>

\* ------------------------------------------------------------ specifications
HandlerIdle ==
  /\ all_prices = <<>> /\ site_counts = <<>> /\ site_data = <<>>
  /\ median = 0 /\ deviation = [num |-> 0, den |-> 1]
  /\ rate = RateOne /\ symbol = "" /\ median_converted = 0
  /\ table_data = <<>> /\ summary = None /\ gpt_outcome = "none"
  /\ ui = <<>> /\ stat_calls = <<>>

AggIdle ==
  /\ agg_pc = "idle" /\ agg_i = 1 /\ results = <<>>
  /\ agg_trace = <<>> /\ outcome = <<>>

ScrapeIdle ==
  /\ scrape_pc = "idle" /\ site = "Ceneo" /\ html = EmptyHtml
  /\ card_i = 1 /\ scrape_results = <<>>

FetchIdle ==
  /\ fetch_pc = "idle" /\ url = Url("Ceneo", "") /\ retries = DefaultRetries
  /\ attempt = 0 /\ fetch_ret = EmptyHtml /\ fetch_log = <<>>

\* The page as rendered, before the button is pressed.
Init ==
  /\ pc = "click"
  /\ barcode \in Barcodes
  /\ rrp \in RrpValues
  /\ currency \in Currencies
  /\ HandlerIdle /\ AggIdle /\ ScrapeIdle /\ FetchIdle

Next ==
  \/ HandlerEmptyBarcode \/ HandlerStart
  \/ AggInvoke \/ ExtractorFault \/ AggStore \/ AggExcept \/ AggReturn
  \/ ScrapeCallFetch \/ ScrapeParse \/ ScrapeCard \/ ScrapeReturn
  \/ FetchAttemptOk \/ FetchAttemptFail \/ FetchExhausted
  \/ HandlerNoData \/ HandlerMedian \/ HandlerDeviation \/ HandlerCurrency
  \/ HandlerCharts \/ HandlerTable \/ GptOk \/ GptFail

Spec == Init /\ [][Next]_vars

\* get_html called on its own, with any retry budget up to MaxRetries.
InitFetch ==
  /\ pc = "unit" /\ barcode \in Eans /\ rrp = 0 /\ currency = "PLN"
  /\ HandlerIdle /\ AggIdle /\ ScrapeIdle
  /\ fetch_pc = "loop"
  /\ url \in {Url(s, barcode) : s \in Sites}
  /\ retries \in 0..MaxRetries
  /\ attempt = 0 /\ fetch_ret = EmptyHtml /\ fetch_log = <<>>

NextFetch == FetchAttemptOk \/ FetchAttemptFail \/ FetchExhausted

SpecFetch == InitFetch /\ [][NextFetch]_vars

\* One extractor, from the point where get_html has returned: "" or a page.
InitScrape ==
  /\ pc = "unit" /\ barcode \in Eans /\ rrp = 0 /\ currency = "PLN"
  /\ HandlerIdle /\ AggIdle
  /\ scrape_pc = "fetching"
  /\ site \in Sites
  /\ html = EmptyHtml /\ card_i = 1 /\ scrape_results = <<>>
  /\ fetch_pc = "done"
  /\ url = Url(site, barcode)
  /\ retries = DefaultRetries
  /\ attempt = 0
  /\ fetch_ret \in Pages
  /\ fetch_log = <<>>

NextScrape == ScrapeParse \/ ExtractorFault \/ ScrapeCard \/ ScrapeReturn

SpecScrape == InitScrape /\ [][NextScrape]_vars

\* get_html under the scheduling the code has: it runs to completion, every
\* request returning or raising within its timeout of 90 seconds.
SpecFetchFair == SpecFetch /\ WF_vars(NextFetch)

\* ------------------------------------------------------------ properties
\* aggregate_prices has returned to the handler.
AggReturned == pc \in {"post", "deviation", "currency", "charts", "table", "gpt", "done"}

\* What a source contributes in a run where a raising source returned [] instead.
EffectiveData(s) == IF outcome[s].kind = "raised" THEN <<>> ELSE outcome[s].data

EffectivePrices(s) ==
  [i \in 1..Len(EffectiveData(s)) |-> EffectiveData(s)[i].price]

InvokedSites ==
  LET calls == SelectSeq(agg_trace, LAMBDA e : e.ev = "invoke")
  IN [i \in 1..Len(calls) |-> calls[i].site]

HasWidget(w, arg) == \E i \in 1..Len(ui) : ui[i] = Widget(w, arg)

\* C1: an extractor that raises neither stops aggregate_prices nor changes what
\* the other sources contribute: every source is invoked, aggregate_prices does
\* not raise, and once it has returned each site's list and count and all_prices
\* are those of the run in which every raising source returned an empty list.
C1_FailureIsolation ==
  /\ pc # "crashed"
  /\ agg_pc # "raised"
  /\ \A s \in DOMAIN outcome : s \in DOMAIN results /\ results[s] = EffectiveData(s)
  /\ AggReturned =>
       /\ InvokedSites = SiteOrder
       /\ DOMAIN outcome = Sites
       /\ \A s \in Sites :
            /\ site_data[s] = EffectiveData(s)
            /\ site_counts[s] = Len(EffectiveData(s))
       /\ all_prices = EffectivePrices("Ceneo") \o EffectivePrices("Allegro")
                       \o EffectivePrices("Amazon") \o EffectivePrices("Google")

\* C1 witness: a run where Ceneo raised and a later source still contributed.
C1_Witness ==
  /\ AggReturned
  /\ outcome["Ceneo"].kind = "raised"
  /\ \E s \in Sites : outcome[s].kind = "returned" /\ site_data[s] # <<>>
  /\ all_prices # <<>>

\* C2: after aggregate_prices returns, the site-data mapping and the site-counts
\* mapping both have exactly the four registered sources as keys; a source that
\* returned nothing or raised maps to an empty list and a count of 0.
C2_Completeness ==
  AggReturned =>
    /\ DOMAIN site_data = Sites
    /\ DOMAIN site_counts = Sites
    /\ \A s \in Sites :
         (outcome[s].kind = "raised" \/ outcome[s].data = <<>>) =>
           (site_data[s] = <<>> /\ site_counts[s] = 0)

\* C2 witness: one source raised, one returned nothing, one returned data.
C2_Witness ==
  /\ AggReturned
  /\ \E s, t, u \in Sites :
       /\ outcome[s].kind = "raised"
       /\ outcome[t].kind = "returned" /\ outcome[t].data = <<>>
       /\ outcome[u].kind = "returned" /\ outcome[u].data # <<>>

Requests == SelectSeq(fetch_log, LAMBDA e : e.ev = "attempt")

\* What get_html guarantees in every state of a call.
FetchSafety ==
  /\ fetch_pc \in {"loop", "done"}
  /\ attempt <= retries
  /\ Len(Requests) <= retries
  /\ \A i \in 1..Len(Requests) : Requests[i].ok => i = Len(Requests)
  /\ \A i \in 1..Len(fetch_log) :
       (fetch_log[i].ev = "attempt" /\ ~fetch_log[i].ok) =>
         /\ i + 2 <= Len(fetch_log)
         /\ fetch_log[i + 1].ev = "warning"
         /\ fetch_log[i + 2] = Event("sleep", BackoffSeconds, FALSE, EmptyHtml)
  /\ fetch_pc = "done" =>
       \/ /\ Requests # <<>>
          /\ Requests[Len(Requests)].ok
          /\ fetch_ret = Requests[Len(Requests)].body
       \/ /\ Len(Requests) = retries
          /\ \A i \in 1..Len(Requests) : ~Requests[i].ok
          /\ fetch_ret = EmptyHtml

\* C3: get_html(url, retries = n) terminates; it makes at most n requests, stops
\* at the first that succeeds and returns its body, returns "" after n failed
\* requests, never raises, and sleeps after every failed request.
C3_BoundedRetry == []FetchSafety /\ <>(fetch_pc = "done")

\* C3 witness: two failed requests, then a success whose body is returned.
C3_Witness ==
  /\ fetch_pc = "done"
  /\ Len(Requests) = 3
  /\ ~Requests[1].ok /\ ~Requests[2].ok /\ Requests[3].ok
  /\ fetch_ret = BodyOne

\* C4: the extractors are invoked in the order Ceneo, Allegro, Amazon, Google,
\* and between any two consecutive invocations the politeness sleep takes
\* place, whatever the outcome of the earlier one.
C4_PolitenessPacing ==
  /\ InvokedSites = SubSeq(SiteOrder, 1, Len(InvokedSites))
  /\ \A i \in 1..(Len(agg_trace) - 1) :
       agg_trace[i].ev = "invoke" => agg_trace[i + 1].ev = "sleep"

\* The handler has computed the deviation (line 221).
DeviationComputed ==
  \/ pc \in {"currency", "charts", "table", "gpt"}
  \/ pc = "done" /\ gpt_outcome # "none"

CountAtMost(xs, m)  == Cardinality({i \in 1..Len(xs) : xs[i] <= m})
CountAtLeast(xs, m) == Cardinality({i \in 1..Len(xs) : xs[i] >= m})

\* The deviation is (median - rrp) / rrp * 100 of the unconverted median of
\* all_prices when rrp > 0, and 0 when rrp = 0, whatever the display currency
\* and rate.
DeviationFormula ==
  /\ deviation.den > 0
  /\ CountAtMost(all_prices, median) * 2 >= Len(all_prices)
  /\ CountAtLeast(all_prices, median) * 2 >= Len(all_prices)
  /\ rrp > 0 => (deviation.num = (median - rrp) * 100 /\ deviation.den = rrp)
  /\ rrp = 0 => deviation.num = 0
  /\ (rrp = Zl(100) /\ median = Zl(120)) => deviation.num = 20 * deviation.den
  /\ (rrp = Zl(100) /\ median = Zl(80)) => deviation.num = (0 - 20) * deviation.den

\* C5 as stated: the deviation formula, and for every rrp >= 0 the deviation is
\* positive exactly when the median exceeds the reference.
C5_Original ==
  DeviationComputed =>
    /\ DeviationFormula
    /\ deviation.num > 0 <=> median > rrp

\* C5 as amended: the deviation formula, and for every rrp > 0 the deviation is
\* positive exactly when the median exceeds the reference; for rrp = 0 it is 0.
C5_Deviation ==
  DeviationComputed =>
    /\ DeviationFormula
    /\ rrp > 0 => (deviation.num > 0 <=> median > rrp)

\* C5 witness: reference 100, median 120, shown in EUR: the deviation is 20.
C5_Witness ==
  /\ pc = "done"
  /\ gpt_outcome # "none"
  /\ rrp = Zl(100)
  /\ median = Zl(120)
  /\ currency = "EUR"
  /\ rate # RateOne
  /\ deviation.num = 20 * deviation.den

\* C6: a median (and a minimum or maximum) is only ever computed over a
\* non-empty list: the overall median over a non-empty all_prices, the
\* per-site statistics only for a site whose list is non-empty.
C6_MedianPrecondition ==
  /\ \A i \in 1..Len(stat_calls) : stat_calls[i].arg # <<>>
  /\ stat_calls # <<>> => (stat_calls[1].arg = all_prices /\ all_prices # <<>>)
  /\ \A i \in 1..Len(table_data) : site_data[table_data[i].Site] # <<>>

\* C6 witness: a finished run with statistics where one site had no observation.
C6_Witness ==
  /\ pc = "done"
  /\ Len(stat_calls) > 1
  /\ \E s \in Sites : site_data[s] = <<>>
  /\ Len(table_data) = 3

NoDataOutcome == HasWidget("warning_no_prices", "")

\* The 'no data' outcome is a normal end of the run that computed nothing.
NoDataIsQuiet ==
  /\ pc = "done"
  /\ stat_calls = <<>>
  /\ gpt_outcome = "none"
  /\ symbol = "" /\ rate = RateOne
  /\ ~HasWidget("metric_median", "") /\ ~HasWidget("metric_deviation", "")

\* C7 as stated: the run ends in the 'no data' outcome only when no source
\* produced an observation and no source raised an error.
C7_Original ==
  /\ pc # "crashed"
  /\ NoDataOutcome =>
       /\ NoDataIsQuiet
       /\ \A s \in Sites : outcome[s].data = <<>>
       /\ \A s \in Sites : outcome[s].kind # "raised"

\* C7 as amended: the run ends in the 'no data' outcome only when no source
\* produced an observation, each source having returned an empty list or
\* raised an error; it is a normal end of the run, with no median, deviation,
\* exchange-rate lookup or summarizer call.
C7_NoData ==
  /\ pc # "crashed"
  /\ NoDataOutcome =>
       /\ NoDataIsQuiet
       /\ \A s \in Sites : EffectiveData(s) = <<>>
       /\ \A s \in Sites : site_counts[s] = 0

\* C7 witness: 'no data' in a run where a source raised an error.
C7_Witness ==
  /\ NoDataOutcome
  /\ pc = "done"
  /\ \E s \in Sites : outcome[s].kind = "raised"
  /\ \E s \in Sites : outcome[s].kind = "returned"

ResultsRendered ==
  /\ HasWidget("metric_median", "")
  /\ HasWidget("metric_deviation", "")
  /\ HasWidget("site_counts", "")
  /\ \A s \in Sites : site_data[s] # <<>> => HasWidget("chart", s)
  /\ HasWidget("dataframe", "")
  /\ \A s \in Sites : site_data[s] # <<>> =>
       \E i \in 1..Len(table_data) : table_data[i].Site = s

\* C8: in a run with at least one observation, whether the text-generation call
\* succeeds or fails, gpt_summary does not raise, the metrics, counts, charts
\* and table are rendered and the run completes; on failure gpt_summary
\* returns None and only the summary section is missing.
C8_SummarizerNonFatal ==
  /\ pc # "crashed"
  /\ pc = "gpt" => (all_prices # <<>> /\ ResultsRendered)
  /\ gpt_outcome # "none" => (pc = "done" /\ all_prices # <<>> /\ ResultsRendered)
  /\ gpt_outcome = "failed" => (summary = None /\ ~HasWidget("summary", ""))
  /\ (gpt_outcome = "ok" /\ summary # "") => HasWidget("summary", "")

\* C8 witness: the text-generation call failed and the run completed.
C8_Witness ==
  /\ gpt_outcome = "failed"
  /\ pc = "done"
  /\ ResultsRendered

\* C9: every price an extractor emits, and so every element of all_prices and
\* of every per-site list, is strictly positive.
C9_PositivePrices ==
  /\ \A i \in 1..Len(scrape_results) : scrape_results[i].price > 0
  /\ \A i \in 1..Len(all_prices) : all_prices[i] > 0
  /\ \A s \in DOMAIN site_data : \A i \in 1..Len(site_data[s]) : site_data[s][i].price > 0

\* A card that yields an observation: reading it does not raise, it has a
\* price element, and the normalizer parses the element's text.
Yields(card) == ~card.raises /\ card.has_price /\ safe_float(card.price_text).ok

ObservationOf(card) ==
  [seller |-> IF card.has_seller THEN card.seller_text ELSE "Unknown seller",
   price |-> safe_float(card.price_text).val]

ExpectedObservations(cards) ==
  LET kept == SelectSeq(cards, Yields)
  IN [i \in 1..Len(kept) |-> ObservationOf(kept[i])]

\* C10: an extractor returns, in page order, exactly one observation per card
\* that has a price element whose text the normalizer parses and whose
\* processing does not fail, with 'Unknown seller' when the card has no seller
\* label; a failing card is skipped and never makes the extractor raise; an
\* empty fetch result yields an empty list without raising.
C10_BestEffort ==
  /\ scrape_pc \in {"fetching", "cards", "done", "raised"}
  /\ scrape_pc = "cards" =>
       scrape_results = ExpectedObservations(SubSeq(html.cards, 1, card_i - 1))
  /\ scrape_pc = "done" =>
       /\ html = fetch_ret
       /\ scrape_results = ExpectedObservations(html.cards)
       /\ html = EmptyHtml => scrape_results = <<>>
  /\ scrape_pc = "raised" => (card_i = 1 /\ scrape_results = <<>>)
  /\ fetch_ret = EmptyHtml => scrape_pc # "raised"

\* C10 witness: a card whose processing failed was skipped, and the next card,
\* with no seller label, gave an observation under the default seller.
C10_Witness ==
  /\ scrape_pc = "done"
  /\ Len(html.cards) = 2
  /\ html.cards[1].raises
  /\ ~html.cards[2].has_seller
  /\ scrape_results = <<[seller |-> "Unknown seller", price |-> Zl(80)]>>
====
